---- MODULE Spec2Model ----
(***************************************************************************)
(* A model of server.js, the Express gateway of the nasa-api repository.   *)
(*                                                                         *)
(* The server holds two read-only credentials and six route handlers.      *)
(* Every handler is an async function with at most one await: it runs      *)
(* synchronously up to its axios call (or to an early response), suspends, *)
(* and resumes with the call's outcome.  Each handler is therefore two     *)
(* actions: the part before the await and the part after it.  Handlers     *)
(* share no mutable state, so the model follows the lifecycle of one       *)
(* request at a time; a new request may arrive once the previous one has   *)
(* been answered.                                                          *)
(*                                                                         *)
(* Conventions.  An optional JavaScript value (a query parameter, a JSON   *)
(* field, process.env.X) is a sequence of length 0 (undefined) or 1 (the   *)
(* value).  Strings the code only passes around are TLA+ strings; strings  *)
(* the code computes on (mission names, EPIC dates) are sequences of       *)
(* one-character strings.                                                  *)
(***************************************************************************)
EXTENDS Integers, Sequences, FiniteSets, TLC

\* ------------------------------------------------------------------ bounds

\* Longest item collection the image search returns (above the slice of 6).
MaxItems == 7
\* Item collections up to this length are enumerated over every item shape.
MaxShortItems == 2
\* Longest launch list the SpaceX upstream returns.
MaxLaunches == 2
\* Longest EPIC record list the upstream returns.
MaxEpic == 2

\* --------------------------------------------------------- optional values

Undefined == <<>>
Some(v) == <<v>>
IsDefined(o) == o # <<>>

\* JavaScript truthiness of an optional string: undefined and "" are falsy.
Truthy(o) == o # <<>> /\ o[1] # ""

\* Truthiness of an optional character-sequence string.
TruthyChars(o) == o # <<>> /\ o[1] # <<>>

SeqsUpTo(S, n) == UNION {[1..k -> S] : k \in 0..n}

Min(a, b) == IF a <= b THEN a ELSE b

\* ------------------------------------------------------------------- state

VARIABLES
  NASA_API_KEY,    \* process.env.NASA_API_KEY, read once at start
  OPENAI_API_KEY,  \* process.env.OPENAI_API_KEY, read once at start
  pc,              \* "idle", "awaiting" (suspended at the await), "responded"
  req,             \* the inbound request being handled
  calls,           \* outbound HTTP calls issued for this request
  upstream,        \* outcome of the outbound call, once it has settled
  res,             \* the response written to the client
  sent             \* number of responses written for this request

vars == <<NASA_API_KEY, OPENAI_API_KEY, pc, req, calls, upstream, res, sent>>

\* Values process.env can give a key: unset, empty, set.
KeyValues == {Undefined, Some(""), Some("DEMO_KEY")}

NoRequest ==
  [route |-> "none", date |-> Undefined, mission_name |-> Undefined,
   q |-> Undefined, media_type |-> Undefined,
   rocket1 |-> Undefined, rocket2 |-> Undefined]

NoOutcome == [kind |-> "none", status |-> 0, data |-> Undefined]

NoResponse == [status |-> 0, error |-> Undefined, json |-> Undefined]

Init ==
  /\ NASA_API_KEY \in KeyValues
  /\ OPENAI_API_KEY \in KeyValues
  /\ pc = "idle"
  /\ req = NoRequest
  /\ calls = 0
  /\ upstream = NoOutcome
  /\ res = NoResponse
  /\ sent = 0

\* ------------------------------------------------------- upstream outcomes

\* Statuses a failing upstream answers with (axios rejects on any non-2xx).
UpstreamErrorStatuses == {404, 429, 503}

\* axios resolved: a 2xx response carrying `data`.
Ok(data) == [kind |-> "ok", status |-> 200, data |-> data]

\* axios rejected with error.response set: a non-2xx answer.
HttpErrors(data) ==
  {[kind |-> "http_error", status |-> s, data |-> data] : s \in UpstreamErrorStatuses}

\* axios rejected without error.response: DNS, connection reset, timeout.
NetworkError(data) == [kind |-> "network_error", status |-> 0, data |-> data]

\* The error object the catch clause receives.
AxiosError(outcome) ==
  [hasResponse |-> outcome.kind = "http_error", status |-> outcome.status]

\* An Error or TypeError thrown by the handler's own code: no .response.
ThrownError == [hasResponse |-> FALSE, status |-> 0]

\* ----------------------------------------------------------------- helpers

\* res.status(s).json({error: message})
ErrorResponse(s, message) ==
  [status |-> s, error |-> Some(message), json |-> Undefined]

\* res.json(body): status 200 implicit
JsonResponse(body) == [status |-> 200, error |-> Undefined, json |-> Some(body)]

\* handleApiError: error?.response?.status || 500
handleApiError(message, error) ==
  ErrorResponse(IF error.hasResponse /\ error.status # 0 THEN error.status ELSE 500,
                message)

\* ensureApiKey with only the undefined case tested (key === undefined).
ensureApiKeyUndefinedOnly(key) == IsDefined(key)

\* ensureApiKey's test: !key is false
ensureApiKey(key) == Truthy(key)

\* The response ensureApiKey writes when the key is missing.
MissingKeyResponse(service) == ErrorResponse(500, service \o " key is missing")

\* A handler's synchronous part ends in an early response: nothing was called.
RespondEarly(request, response) ==
  /\ req' = request
  /\ calls' = 0
  /\ upstream' = NoOutcome
  /\ res' = response
  /\ sent' = 1
  /\ pc' = "responded"

\* A handler's synchronous part ends at `await axios...`: one call is issued.
IssueCall(request) ==
  /\ req' = request
  /\ calls' = 1
  /\ upstream' = NoOutcome
  /\ res' = NoResponse
  /\ sent' = 0
  /\ pc' = "awaiting"

\* The awaited call settles and the handler runs to its response.
Respond(outcome, response) ==
  /\ upstream' = outcome
  /\ res' = response
  /\ sent' = sent + 1
  /\ pc' = "responded"
  /\ UNCHANGED <<req, calls>>

\* --------------------------------------------------------------- /api/apod

DateParams == {Undefined, Some(""), Some("2020-01-01")}

ApodPayloads == {"apod-image", "apod-video"}

ApodOutcomes ==
  {Ok(d) : d \in ApodPayloads} \cup HttpErrors("") \cup {NetworkError("")}

GetApod(date) ==
  /\ pc # "awaiting"
  /\ UNCHANGED <<NASA_API_KEY, OPENAI_API_KEY>>
  /\ LET request == [NoRequest EXCEPT !.route = "apod", !.date = date]
     IN IF ~ensureApiKey(NASA_API_KEY)
        THEN RespondEarly(request, MissingKeyResponse("NASA"))
        ELSE IssueCall(request)

ApodResume(outcome) ==
  /\ pc = "awaiting"
  /\ req.route = "apod"
  /\ UNCHANGED <<NASA_API_KEY, OPENAI_API_KEY>>
  /\ Respond(outcome,
             IF outcome.kind = "ok"
             THEN JsonResponse(outcome.data)
             ELSE handleApiError("Failed to fetch APOD data", AxiosError(outcome)))

\* ------------------------------------------------------------ /api/rockets

RocketsPayloads == {"rockets-v4", "rockets-empty"}

RocketsOutcomes ==
  {Ok(d) : d \in RocketsPayloads} \cup HttpErrors("") \cup {NetworkError("")}

GetRockets ==
  /\ pc # "awaiting"
  /\ UNCHANGED <<NASA_API_KEY, OPENAI_API_KEY>>
  /\ IssueCall([NoRequest EXCEPT !.route = "rockets"])

RocketsResume(outcome) ==
  /\ pc = "awaiting"
  /\ req.route = "rockets"
  /\ UNCHANGED <<NASA_API_KEY, OPENAI_API_KEY>>
  /\ Respond(outcome,
             IF outcome.kind = "ok"
             THEN JsonResponse(outcome.data)
             ELSE handleApiError("Failed to fetch rockets", AxiosError(outcome)))

\* ----------------------------------------------------------- /api/launches

\* String.prototype.toLowerCase, one character.
LowerChar(c) ==
  CASE c = "F" -> "f"
    [] c = "A" -> "a"
    [] c = "L" -> "l"
    [] OTHER -> c

\* String.prototype.toLowerCase
toLowerCase(s) == [i \in 1..Len(s) |-> LowerChar(s[i])]

\* String.prototype.includes: t occurs in s as a contiguous substring.
includes(s, t) ==
  \E i \in 0..(Len(s) - Len(t)) : SubSeq(s, i + 1, i + Len(t)) = t

\* req.query.mission_name: absent, empty, or a string.
MissionNameParams ==
  {Undefined, Some(<<>>), Some(<<"f", "a">>), Some(<<"F", "A">>),
   Some(<<"a", "l">>), Some(<<"x">>)}

\* launch.mission_name as the upstream may give it; Undefined: no such field.
MissionNames ==
  {Undefined, Some(<<"F", "a", "l">>), Some(<<"f", "A">>), Some(<<"x", "a", "L">>)}

LaunchRecords ==
  [flight_number : {1, 2}, mission_name : MissionNames]

\* The upstream body: a JSON array of launch records, or some other JSON value.
LaunchPayloads ==
  {[type |-> "array", items |-> l] : l \in SeqsUpTo(LaunchRecords, MaxLaunches)}
    \cup {[type |-> t, items |-> <<>>] : t \in {"object", "string", "null"}}

NoLaunchPayload == [type |-> "none", items |-> <<>>]

LaunchesOutcomes ==
  {Ok(d) : d \in LaunchPayloads}
    \cup HttpErrors(NoLaunchPayload) \cup {NetworkError(NoLaunchPayload)}

\* The launches handler with the Array.isArray guard left out.
LaunchDataIsArrayUnchecked(data) == TRUE

\* Array.isArray(data)
LaunchDataIsArray(data) == data.type = "array"

\* launch.mission_name.toLowerCase() throws a TypeError on a record without
\* the field; Array.prototype.filter lets it propagate.
FilterThrows(items) == \E i \in 1..Len(items) : ~IsDefined(items[i].mission_name)

\* data.filter(launch => launch.mission_name.toLowerCase().includes(name.toLowerCase()))
FilterLaunches(items, name) ==
  LET Keep(launch) ==
        includes(toLowerCase(launch.mission_name[1]), toLowerCase(name))
  IN SelectSeq(items, Keep)

\* The part of the launches handler after the await.
LaunchesResponse(request, outcome) ==
  LET message == "Failed to fetch SpaceX launch data"
      data == outcome.data
  IN IF outcome.kind # "ok" THEN handleApiError(message, AxiosError(outcome))
     ELSE IF ~LaunchDataIsArray(data) THEN handleApiError(message, ThrownError)
     ELSE IF ~TruthyChars(request.mission_name) THEN JsonResponse(data)
     ELSE IF FilterThrows(data.items) THEN handleApiError(message, ThrownError)
     ELSE JsonResponse([type |-> "array",
                        items |-> FilterLaunches(data.items, request.mission_name[1])])

GetLaunches(mission_name) ==
  /\ pc # "awaiting"
  /\ UNCHANGED <<NASA_API_KEY, OPENAI_API_KEY>>
  /\ IssueCall([NoRequest EXCEPT !.route = "launches", !.mission_name = mission_name])

LaunchesResume(outcome) ==
  /\ pc = "awaiting"
  /\ req.route = "launches"
  /\ UNCHANGED <<NASA_API_KEY, OPENAI_API_KEY>>
  /\ Respond(outcome, LaunchesResponse(req, outcome))

\* -------------------------------------------------------- /api/nasa-images

\* items.slice(0, 6)
SliceLimit == 6

QParams == {Undefined, Some("moon")}

\* req.query.media_type: absent, empty (?media_type=), valid, or anything else.
MediaTypeParams ==
  {Undefined, Some(""), Some("image"), Some("video"), Some("audio"), Some("foo")}

\* `media_type = "image"` written as req.query.media_type || "image".
MediaTypeOfFalsyDefault(query) ==
  IF Truthy(query.media_type) THEN query.media_type[1] ELSE "image"

\* const { media_type = "image" } = req.query: the default applies to
\* undefined only.
MediaTypeOf(query) ==
  IF IsDefined(query.media_type) THEN query.media_type[1] ELSE "image"

\* validMediaTypes with its last entry lost.
validMediaTypesShort == {"image", "video"}

validMediaTypes == {"image", "video", "audio"}

\* item.data[0] as the upstream may give it; every field may be absent.
MediaData ==
  {[nasa_id |-> Some("PIA01"), title |-> Some("Mars"), description |-> Some("Red"),
    date_created |-> Some("2001"), media_type |-> Some("video")],
   [nasa_id |-> Some("PIA02"), title |-> Some(""), description |-> Undefined,
    date_created |-> Some("2002"), media_type |-> Undefined],
   [nasa_id |-> Undefined, title |-> Undefined, description |-> Some("Dust"),
    date_created |-> Undefined, media_type |-> Some("image")]}

FullData == CHOOSE d \in MediaData : d.nasa_id = Some("PIA01")
HalfData == CHOOSE d \in MediaData : d.nasa_id = Some("PIA02")
BareData == CHOOSE d \in MediaData : d.nasa_id = Undefined

\* The shapes of one element of collection.items, in a fixed order.  data and
\* links are optional arrays, href an optional string.
ItemShapes ==
  << [data |-> Some(<<FullData>>), links |-> Some(<<[href |-> Some("t1.jpg")]>>),
      href |-> Some("a1.json")],
     [data |-> Some(<<HalfData, FullData>>), links |-> Some(<<[href |-> Undefined]>>),
      href |-> Undefined],
     [data |-> Some(<<BareData>>), links |-> Some(<<>>), href |-> Some("a3.json")],
     [data |-> Some(<<>>), links |-> Undefined, href |-> Some("")],
     [data |-> Undefined, links |-> Some(<<[href |-> Some("t5.jpg")]>>),
      href |-> Some("a5.json")] >>

ItemShapeSet == {ItemShapes[k] : k \in 1..Len(ItemShapes)}

\* A collection of n items running through the shapes from the k-th on.
Cycle(n, k) == [i \in 1..n |-> ItemShapes[((i + k - 2) % Len(ItemShapes)) + 1]]

ItemLists ==
  SeqsUpTo(ItemShapeSet, MaxShortItems)
    \cup {Cycle(n, k) : n \in (MaxShortItems + 1)..MaxItems, k \in 1..Len(ItemShapes)}

\* response.data as the upstream may give it.  shape says how far the chain
\* data.collection.items reaches and what kind of JSON value items is.
ImagePayloads ==
  {[shape |-> "array", items |-> l] : l \in ItemLists}
    \cup {[shape |-> t, items |-> <<>>] :
            t \in {"no_data", "no_collection", "no_items",
                   "items_null", "items_string", "items_object"}}

NoImagePayload == [shape |-> "none", items |-> <<>>]

NasaImagesOutcomes ==
  {Ok(d) : d \in ImagePayloads}
    \cup HttpErrors(NoImagePayload) \cup {NetworkError(NoImagePayload)}

\* response?.data?.collection?.items || []: a missing link of the chain or a
\* falsy items gives the empty array; a truthy non-array is kept as it is.
ExtractItems(data) ==
  IF data.shape \in {"no_data", "no_collection", "no_items", "items_null"}
  THEN [isArray |-> TRUE, elems |-> <<>>]
  ELSE [isArray |-> data.shape = "array", elems |-> data.items]

\* The 404 guard with the length test left out.
NoMediaNotArrayOnly(items) == ~items.isArray

\* !Array.isArray(items) || items.length === 0
NoMedia(items) == ~items.isArray \/ Len(items.elems) = 0

\* The projection applied to the whole collection (no slice).
SliceItemsAll(elems) == elems

\* items.slice(0, 6)
SliceItems(elems) == SubSeq(elems, 1, Min(Len(elems), SliceLimit))

\* a || b on optional strings, b a string
OrElse(o, default) == IF Truthy(o) THEN o[1] ELSE default

\* a || null on optional strings; null is written Undefined
OrNull(o) == IF Truthy(o) THEN o ELSE Undefined

\* The callback of items.slice(0, 6).map(...)
ProjectItem(item, media_type) ==
  LET data == IF IsDefined(item.data) /\ Len(item.data[1]) > 0
              THEN item.data[1][1]
              ELSE [nasa_id |-> Undefined, title |-> Undefined,
                    description |-> Undefined, date_created |-> Undefined,
                    media_type |-> Undefined]
      linkHref == IF IsDefined(item.links) /\ Len(item.links[1]) > 0
                  THEN item.links[1][1].href
                  ELSE Undefined
  IN [nasa_id |-> data.nasa_id,
      title |-> OrElse(data.title, "Untitled"),
      description |-> OrElse(data.description, "No description provided."),
      date_created |-> OrElse(data.date_created, "N/A"),
      thumbnail |-> OrNull(linkHref),
      media_type |-> OrElse(data.media_type, media_type),
      href |-> OrNull(item.href)]

\* The part of the nasa-images handler after the await.  Its catch clause does
\* not use handleApiError: it answers 500 whatever the error carries.
NasaImagesResponse(request, outcome) ==
  LET media_type == MediaTypeOf(request)
      items == ExtractItems(outcome.data)
      picked == SliceItems(items.elems)
  IN IF outcome.kind # "ok" THEN ErrorResponse(500, "Failed to fetch NASA media")
     ELSE IF NoMedia(items)
          THEN ErrorResponse(404, "No media found for the given query.")
          ELSE JsonResponse([i \in 1..Len(picked) |-> ProjectItem(picked[i], media_type)])

GetNasaImages(q, media_type) ==
  /\ pc # "awaiting"
  /\ UNCHANGED <<NASA_API_KEY, OPENAI_API_KEY>>
  /\ LET request == [NoRequest EXCEPT !.route = "nasa-images", !.q = q,
                                      !.media_type = media_type]
     IN IF MediaTypeOf(request) \notin validMediaTypes
        THEN RespondEarly(request, ErrorResponse(400, "Invalid media_type specified."))
        ELSE IssueCall(request)

NasaImagesResume(outcome) ==
  /\ pc = "awaiting"
  /\ req.route = "nasa-images"
  /\ UNCHANGED <<NASA_API_KEY, OPENAI_API_KEY>>
  /\ Respond(outcome, NasaImagesResponse(req, outcome))

\* --------------------------------------------------------------- /api/epic

\* "2019-05-30 01:09:10"
DateFull ==
  <<"2", "0", "1", "9", "-", "0", "5", "-", "3", "0", " ",
    "0", "1", ":", "0", "9", ":", "1", "0">>

\* "2020-01-01": no time part
DateOnly == <<"2", "0", "2", "0", "-", "0", "1", "-", "0", "1">>

\* "2015-10-31 00:36 -05": a second space and a later dash
DateZoned ==
  <<"2", "0", "1", "5", "-", "1", "0", "-", "3", "1", " ",
    "0", "0", ":", "3", "6", " ", "-", "0", "5">>

\* One element of the EPIC upstream array; every field may be absent.
EpicRecords ==
  {[identifier |-> Some("20190530010910"), caption |-> Some("Earth"),
    date |-> Some(DateFull), image |-> Some("epic_1b_20190530010910")],
   [identifier |-> Some("20200101"), caption |-> Undefined,
    date |-> Some(DateOnly), image |-> Some("epic_1b_20200101")],
   [identifier |-> Undefined, caption |-> Some("Zoned"),
    date |-> Some(DateZoned), image |-> Undefined],
   [identifier |-> Some("nodate"), caption |-> Some("No date"),
    date |-> Undefined, image |-> Some("epic_1b_nodate")]}

EpicPayloads ==
  {[type |-> "array", items |-> l] : l \in SeqsUpTo(EpicRecords, MaxEpic)}
    \cup {[type |-> t, items |-> <<>>] : t \in {"object", "null"}}

NoEpicPayload == [type |-> "none", items |-> <<>>]

EpicOutcomes ==
  {Ok(d) : d \in EpicPayloads}
    \cup HttpErrors(NoEpicPayload) \cup {NetworkError(NoEpicPayload)}

\* String.prototype.split(sep) for a one-character separator.
RECURSIVE split(_, _)
split(s, sep) ==
  IF \E i \in 1..Len(s) : s[i] = sep
  THEN LET k == CHOOSE i \in 1..Len(s) :
                  s[i] = sep /\ \A j \in 1..(i - 1) : s[j] # sep
       IN <<SubSeq(s, 1, k - 1)>> \o split(SubSeq(s, k + 1, Len(s)), sep)
  ELSE <<s>>

\* .replace("-", "/"), or the regular expression without its g flag: the
\* first dash only.
replaceFirstDash(s) ==
  [i \in 1..Len(s) |->
     IF s[i] = "-" /\ (\A j \in 1..(i - 1) : s[j] # "-") THEN "/" ELSE s[i]]

\* .replace(/-/g, "/")
replaceDashes(s) == [i \in 1..Len(s) |-> IF s[i] = "-" THEN "/" ELSE s[i]]

\* ${value} in a template literal
Interpolate(o) == IF IsDefined(o) THEN o[1] ELSE "undefined"

\* The template of imageUrl, as the sequence of its pieces.
ImageUrl(dateStr, image) ==
  <<"https://epic.gsfc.nasa.gov/archive/natural/">> \o dateStr
    \o <<"/png/", Interpolate(image), ".png">>

\* The callback of data.map(...); telemetry fields are copied like caption.
FormatEpic(item) ==
  LET dateStr == replaceDashes(split(item.date[1], " ")[1])
  IN [identifier |-> item.identifier,
      caption |-> item.caption,
      date |-> item.date,
      imageUrl |-> ImageUrl(dateStr, item.image)]

\* data.map throws a TypeError when data is no array, its callback when an
\* item has no date (item.date.split).
EpicThrows(data) ==
  \/ data.type # "array"
  \/ \E i \in 1..Len(data.items) : ~IsDefined(data.items[i].date)

EpicResponse(outcome) ==
  LET message == "Failed to fetch EPIC images"
      data == outcome.data
  IN IF outcome.kind # "ok" THEN handleApiError(message, AxiosError(outcome))
     ELSE IF EpicThrows(data) THEN handleApiError(message, ThrownError)
     ELSE JsonResponse([i \in 1..Len(data.items) |-> FormatEpic(data.items[i])])

GetEpic(date) ==
  /\ pc # "awaiting"
  /\ UNCHANGED <<NASA_API_KEY, OPENAI_API_KEY>>
  /\ LET request == [NoRequest EXCEPT !.route = "epic", !.date = date]
     IN IF ~ensureApiKey(NASA_API_KEY)
        THEN RespondEarly(request, MissingKeyResponse("NASA"))
        ELSE IssueCall(request)

EpicResume(outcome) ==
  /\ pc = "awaiting"
  /\ req.route = "epic"
  /\ UNCHANGED <<NASA_API_KEY, OPENAI_API_KEY>>
  /\ Respond(outcome, EpicResponse(outcome))

\* ---------------------------------------------------- /api/compare-rockets

\* req.body.rocket1 / rocket2: absent, empty, or a name.
RocketNames == {Undefined, Some(""), Some("Falcon 9"), Some("Starship")}

\* The chat-completion body: how far data.choices[0].message.content reaches.
ComparePayloads ==
  {[shape |-> t, content |-> Undefined] :
     t \in {"null", "no_choices", "empty_choices", "no_message", "no_content"}}
    \cup {[shape |-> "content", content |-> Some(c)] : c \in {"", "Falcon 9 is smaller."}}

NoComparePayload == [shape |-> "none", content |-> Undefined]

CompareOutcomes ==
  {Ok(d) : d \in ComparePayloads}
    \cup HttpErrors(NoComparePayload) \cup {NetworkError(NoComparePayload)}

\* The parameter guard written with && in place of ||.
RocketNamesMissingBoth(rocket1, rocket2) == ~Truthy(rocket1) /\ ~Truthy(rocket2)

\* !rocket1 || !rocket2
RocketNamesMissing(rocket1, rocket2) == ~Truthy(rocket1) \/ ~Truthy(rocket2)

\* data.choices?.[0]?.message?.content || "No response"
Comparison(data) == OrElse(data.content, "No response")

CompareResponse(outcome) ==
  LET message == "Failed to generate rocket comparison"
  IN IF outcome.kind # "ok" THEN handleApiError(message, AxiosError(outcome))
     ELSE IF outcome.data.shape = "null" THEN handleApiError(message, ThrownError)
     ELSE JsonResponse([comparison |-> Comparison(outcome.data)])

PostCompareRockets(rocket1, rocket2) ==
  /\ pc # "awaiting"
  /\ UNCHANGED <<NASA_API_KEY, OPENAI_API_KEY>>
  /\ LET request == [NoRequest EXCEPT !.route = "compare-rockets",
                                      !.rocket1 = rocket1, !.rocket2 = rocket2]
     IN IF RocketNamesMissing(rocket1, rocket2)
        THEN RespondEarly(request, ErrorResponse(400, "Both rocket names are required."))
        ELSE IF ~ensureApiKey(OPENAI_API_KEY)
             THEN RespondEarly(request, MissingKeyResponse("OpenAI"))
             ELSE IssueCall(request)

CompareRocketsResume(outcome) ==
  /\ pc = "awaiting"
  /\ req.route = "compare-rockets"
  /\ UNCHANGED <<NASA_API_KEY, OPENAI_API_KEY>>
  /\ Respond(outcome, CompareResponse(outcome))

\* ------------------------------------------------------------------- system

Next ==
  \/ \E d \in DateParams : GetApod(d)
  \/ \E o \in ApodOutcomes : ApodResume(o)
  \/ GetRockets
  \/ \E o \in RocketsOutcomes : RocketsResume(o)
  \/ \E m \in MissionNameParams : GetLaunches(m)
  \/ \E o \in LaunchesOutcomes : LaunchesResume(o)
  \/ \E q \in QParams, m \in MediaTypeParams : GetNasaImages(q, m)
  \/ \E o \in NasaImagesOutcomes : NasaImagesResume(o)
  \/ \E d \in DateParams : GetEpic(d)
  \/ \E o \in EpicOutcomes : EpicResume(o)
  \/ \E r1 \in RocketNames, r2 \in RocketNames : PostCompareRockets(r1, r2)
  \/ \E o \in CompareOutcomes : CompareRocketsResume(o)

Spec == Init /\ [][Next]_vars

\* ================================================================== claims
\* The formulas below restate the specification in their own terms: they do
\* not use the operators the handlers are built from.

Done == pc = "responded"

\* A credential is absent when it is unset or empty.
Absent(key) == key = Undefined \/ key = Some("")

\* A request parameter is present when it is given and not empty.
Present(param) == param # Undefined /\ param # Some("")

IsErrorEnvelope(response, status, message) ==
  /\ response.status = status
  /\ response.error = Some(message)
  /\ response.json = Undefined

\* ---------------------------------------------------------------------- C1
\* C1: a request to a credential-gated route (apod, epic, compare-rockets
\* with both names present) made while the route's credential is unset or
\* empty is answered 500 with "<Service> key is missing" (NASA for apod and
\* epic, OpenAI for compare-rockets), and no outbound call is made for it.
C1_MissingCredential ==
  /\ (req.route \in {"apod", "epic"} /\ Absent(NASA_API_KEY))
       => /\ Done
          /\ IsErrorEnvelope(res, 500, "NASA key is missing")
          /\ calls = 0
  /\ (/\ req.route = "compare-rockets"
      /\ Present(req.rocket1) /\ Present(req.rocket2)
      /\ Absent(OPENAI_API_KEY))
       => /\ Done
          /\ IsErrorEnvelope(res, 500, "OpenAI key is missing")
          /\ calls = 0

\* An EPIC request under an empty (set but blank) NASA key was refused.
C1_Witness ==
  /\ Done /\ req.route = "epic" /\ NASA_API_KEY = Some("")
  /\ res.status = 500 /\ calls = 0

\* ---------------------------------------------------------------------- C2
\* The fixed message of each route's failure response.
FailureMessage(route) ==
  CASE route = "apod" -> "Failed to fetch APOD data"
    [] route = "launches" -> "Failed to fetch SpaceX launch data"
    [] route = "rockets" -> "Failed to fetch rockets"
    [] route = "nasa-images" -> "Failed to fetch NASA media"
    [] route = "epic" -> "Failed to fetch EPIC images"
    [] route = "compare-rockets" -> "Failed to generate rocket comparison"

\* The outbound call failed: a network error, a non-2xx status, or a body
\* that is not the JSON value the route works on.
CallFailed ==
  \/ upstream.kind \in {"http_error", "network_error"}
  \/ /\ upstream.kind = "ok"
     /\ \/ req.route \in {"launches", "epic"} /\ upstream.data.type # "array"
        \/ req.route = "compare-rockets" /\ upstream.data.shape = "null"

MirroredStatus == IF upstream.kind = "http_error" THEN upstream.status ELSE 500

\* C2: on every route, nasa-images included, a failed outbound call is
\* answered with {error: <the route's fixed message>} under the upstream's
\* status when the failure carries one, and under 500 otherwise.
C2_FailureMirrorsUpstreamStatus ==
  (Done /\ calls = 1 /\ CallFailed)
    => IsErrorEnvelope(res, MirroredStatus, FailureMessage(req.route))

\* The same statement for the five routes whose catch clause calls
\* handleApiError; it holds.
C2_FiveRoutesMirrorUpstreamStatus ==
  (Done /\ calls = 1 /\ CallFailed /\ req.route # "nasa-images")
    => IsErrorEnvelope(res, MirroredStatus, FailureMessage(req.route))

\* On nasa-images the envelope and the message are as claimed; the status is
\* always 500.
C2_NasaImagesAlways500 ==
  (Done /\ calls = 1 /\ CallFailed /\ req.route = "nasa-images")
    => IsErrorEnvelope(res, 500, FailureMessage(req.route))

\* ---------------------------------------------------------------------- C3
\* C3: compare-rockets checks its parameters before its credential and both
\* before any outbound call: a missing or empty rocket1 or rocket2 gives 400
\* and no call whatever the OpenAI credential is; both names present with
\* the credential absent gives 500 naming OpenAI and no call.
C3_CompareRocketsOrder ==
  /\ (req.route = "compare-rockets" /\ ~(Present(req.rocket1) /\ Present(req.rocket2)))
       => /\ Done
          /\ IsErrorEnvelope(res, 400, "Both rocket names are required.")
          /\ calls = 0
  /\ (/\ req.route = "compare-rockets"
      /\ Present(req.rocket1) /\ Present(req.rocket2)
      /\ Absent(OPENAI_API_KEY))
       => /\ Done
          /\ res.status = 500
          /\ res.error = Some("OpenAI key is missing")
          /\ calls = 0

\* One name given, the other not, and no credential: the answer was 400, the
\* parameter check came first.
C3_Witness ==
  /\ Done /\ req.route = "compare-rockets"
  /\ req.rocket1 = Some("Falcon 9") /\ req.rocket2 = Undefined
  /\ OPENAI_API_KEY = Undefined
  /\ res.status = 400 /\ calls = 0

\* ---------------------------------------------------------------------- C4
\* The route's preconditions: its parameters are valid and its credential is
\* present.
PreconditionsHold ==
  CASE req.route \in {"apod", "epic"} -> ~Absent(NASA_API_KEY)
    [] req.route \in {"launches", "rockets"} -> TRUE
    [] req.route = "nasa-images" ->
         req.media_type \in {Undefined, Some("image"), Some("video"), Some("audio")}
    [] req.route = "compare-rockets" ->
         Present(req.rocket1) /\ Present(req.rocket2) /\ ~Absent(OPENAI_API_KEY)
    [] OTHER -> FALSE

\* C4: a request whose preconditions hold causes exactly one outbound call,
\* and no request on any route causes more than one, also after a failure.
C4_OneOutboundCall ==
  /\ calls <= 1
  /\ PreconditionsHold => calls = 1
  /\ (Done /\ upstream.kind # "none") => calls = 1

\* A request whose call failed was answered without a second call.
C4_Witness ==
  /\ Done /\ req.route = "nasa-images" /\ req.media_type = Some("audio")
  /\ upstream.kind = "network_error" /\ calls = 1

\* ---------------------------------------------------------------------- C5
\* The first data entry of an image-search item, if it has one.
FirstData(item) ==
  IF item.data # Undefined /\ item.data[1] # <<>> THEN Some(item.data[1][1]) ELSE Undefined

\* C5: nasa-images with a media_type outside {image, video, audio} answers
\* 400 with an error envelope whatever q is, before any outbound call; with
\* media_type omitted the request is not rejected and "image" is the type
\* an item without one is given.
C5_MediaTypeValidation ==
  /\ (/\ req.route = "nasa-images"
      /\ req.media_type # Undefined
      /\ req.media_type[1] \notin {"image", "video", "audio"})
       => /\ Done
          /\ res.status = 400
          /\ res.error # Undefined /\ res.json = Undefined
          /\ calls = 0 /\ upstream.kind = "none"
  /\ (req.route = "nasa-images" /\ req.media_type = Undefined)
       => /\ calls = 1
          /\ res.status # 400
          /\ (Done /\ res.status = 200)
               => \A i \in 1..Len(res.json[1]) :
                    LET d == FirstData(upstream.data.items[i])
                    IN (d = Undefined \/ d[1].media_type = Undefined)
                         => res.json[1][i].media_type = "image"

\* An empty media_type, with q given, was refused before any call.
C5_Witness ==
  /\ Done /\ req.route = "nasa-images"
  /\ req.media_type = Some("") /\ req.q = Some("moon")
  /\ res.status = 400 /\ calls = 0

\* ---------------------------------------------------------------------- C6
\* Two characters are the same letter when they are equal or differ in case.
SameLetter(a, b) ==
  a = b \/ {a, b} \in {{"f", "F"}, {"a", "A"}, {"l", "L"}}

\* name contains part as a substring, case ignored.
ContainsIgnoringCase(name, part) ==
  \E off \in 0..(Len(name) - Len(part)) :
    \A j \in 1..Len(part) : SameLetter(name[off + j], part[j])

\* A record without a mission name contains no parameter.
MatchesMission(launch, part) ==
  launch.mission_name # Undefined
    /\ ContainsIgnoringCase(launch.mission_name[1], part)

\* The records of a list that match, in the list's order.
RECURSIVE MatchingLaunches(_, _)
MatchingLaunches(launches, part) ==
  IF launches = <<>> THEN <<>>
  ELSE (IF MatchesMission(Head(launches), part) THEN <<Head(launches)>> ELSE <<>>)
         \o MatchingLaunches(Tail(launches), part)

LaunchesAnsweredArray ==
  Done /\ req.route = "launches" /\ upstream.kind = "ok" /\ upstream.data.type = "array"

ExpectedLaunches ==
  IF req.mission_name # Undefined /\ req.mission_name[1] # <<>>
  THEN MatchingLaunches(upstream.data.items, req.mission_name[1])
  ELSE upstream.data.items

\* C6: launches with a non-empty mission_name returns exactly the upstream
\* records, in upstream order, whose mission name contains the parameter
\* case-insensitively; without the parameter (or with an empty one) it
\* returns the upstream array unchanged.  This for every upstream array,
\* also one with records that have no mission name.
C6_LaunchFilter ==
  LaunchesAnsweredArray
    => /\ res.status = 200
       /\ res.json = Some([type |-> "array", items |-> ExpectedLaunches])

\* The same statement for upstream arrays in which every record has a
\* mission name, or for requests without the parameter; it holds.
C6_LaunchFilterNamedRecords ==
  (/\ LaunchesAnsweredArray
   /\ \/ ~(req.mission_name # Undefined /\ req.mission_name[1] # <<>>)
      \/ \A i \in 1..Len(upstream.data.items) :
           upstream.data.items[i].mission_name # Undefined)
    => /\ res.status = 200
       /\ res.json = Some([type |-> "array", items |-> ExpectedLaunches])

\* ---------------------------------------------------------------------- C7
\* A source field that is absent gives the default; one that is present and
\* not empty is passed on.
FieldOrDefault(out, source, default) ==
  /\ source = Undefined => out = default
  /\ Present(source) => out = source[1]

\* The same for the two fields whose default is null.
FieldOrNull(out, source) ==
  /\ source = Undefined => out = Undefined
  /\ Present(source) => out = source

FirstLinkHref(item) ==
  IF item.links # Undefined /\ item.links[1] # <<>>
  THEN item.links[1][1].href
  ELSE Undefined

RequestedMediaType == IF req.media_type = Undefined THEN "image" ELSE req.media_type[1]

\* out is the projection of item.
ProjectionOf(out, item) ==
  LET d == FirstData(item)
      field(name) == IF d = Undefined THEN Undefined ELSE d[1][name]
  IN /\ out.nasa_id = field("nasa_id")
     /\ FieldOrDefault(out.title, field("title"), "Untitled")
     /\ FieldOrDefault(out.description, field("description"), "No description provided.")
     /\ FieldOrDefault(out.date_created, field("date_created"), "N/A")
     /\ FieldOrDefault(out.media_type, field("media_type"), RequestedMediaType)
     /\ FieldOrNull(out.thumbnail, FirstLinkHref(item))
     /\ FieldOrNull(out.href, item.href)

ImagesAnsweredItems ==
  /\ Done /\ req.route = "nasa-images"
  /\ upstream.kind = "ok" /\ upstream.data.shape = "array"
  /\ Len(upstream.data.items) > 0

\* C7: nasa-images, on a successful upstream call with a non-empty item
\* collection of length n, returns exactly min(n, 6) projected items, the
\* first min(n, 6) upstream items in upstream order, each absent source
\* field replaced by its default.
C7_ProjectsFirstSix ==
  ImagesAnsweredItems
    => LET items == upstream.data.items
           n == Len(items)
       IN /\ res.status = 200
          /\ res.json # Undefined
          /\ Len(res.json[1]) = (IF n < 6 THEN n ELSE 6)
          /\ \A i \in 1..Len(res.json[1]) : ProjectionOf(res.json[1][i], items[i])

\* A collection of seven items was answered with six.
C7_Witness ==
  /\ ImagesAnsweredItems
  /\ Len(upstream.data.items) = 7
  /\ res.status = 200 /\ Len(res.json[1]) = 6
  /\ res.json[1][4].title = "Untitled"

\* ---------------------------------------------------------------------- C8
\* The upstream answered, and its item collection is empty or missing.
NoItemCollection ==
  /\ upstream.kind = "ok"
  /\ \/ upstream.data.shape \in {"no_data", "no_collection", "no_items",
                                  "items_null", "items_string", "items_object"}
     \/ upstream.data.shape = "array" /\ upstream.data.items = <<>>

\* C8: nasa-images answers 404 with an error envelope whenever the upstream
\* call succeeds but the item collection is empty or missing (no collection,
\* no items, items not a sequence), and never answers 200 with an empty list.
C8_EmptyCollectionIs404 ==
  /\ (Done /\ req.route = "nasa-images" /\ NoItemCollection)
       => /\ res.status = 404
          /\ res.error # Undefined /\ res.json = Undefined
  /\ (Done /\ req.route = "nasa-images" /\ res.status = 200)
       => res.json # Undefined /\ res.json[1] # <<>>

\* An empty items array was answered 404.
C8_Witness ==
  /\ Done /\ req.route = "nasa-images"
  /\ upstream.kind = "ok" /\ upstream.data.shape = "array" /\ upstream.data.items = <<>>
  /\ res.status = 404

\* ---------------------------------------------------------------------- C9
\* C9: launches, when the upstream call succeeds with a payload that is not
\* a sequence, answers 500 with {error: "Failed to fetch SpaceX launch
\* data"}, and the request receives exactly one response.
C9_NonArrayLaunchesIs500 ==
  (Done /\ req.route = "launches" /\ upstream.kind = "ok" /\ upstream.data.type # "array")
    => /\ IsErrorEnvelope(res, 500, "Failed to fetch SpaceX launch data")
       /\ sent = 1

\* An object in place of the array, no filter asked for, was answered 500.
C9_Witness ==
  /\ Done /\ req.route = "launches" /\ req.mission_name = Undefined
  /\ upstream.kind = "ok" /\ upstream.data.type = "object"
  /\ res.status = 500 /\ sent = 1

\* --------------------------------------------------------------------- C10
\* The number of characters of date before its first space.
DateLength(date) ==
  IF \E i \in 1..Len(date) : date[i] = " "
  THEN Cardinality({i \in 1..Len(date) : \A j \in 1..i : date[j] # " "})
  ELSE Len(date)

\* The part of date before its first space, every "-" turned into "/".
DatePath(date) ==
  [i \in 1..DateLength(date) |-> IF date[i] = "-" THEN "/" ELSE date[i]]

EpicAnsweredRecords ==
  /\ Done /\ req.route = "epic" /\ ~Absent(NASA_API_KEY)
  /\ upstream.kind = "ok" /\ upstream.data.type = "array"
  /\ \A i \in 1..Len(upstream.data.items) : upstream.data.items[i].date # Undefined

\* C10: epic, with the NASA credential present and a successful upstream
\* call, returns one record per upstream record in the same order; each
\* imageUrl is https://epic.gsfc.nasa.gov/archive/natural/<D>/png/<image>.png
\* with <D> the part of the record's date before the first space, every "-"
\* replaced by "/" (YYYY-MM-DD HH:MM:SS gives YYYY/MM/DD), and <image> the
\* record's image identifier; the date itself is passed through unchanged.
C10_EpicImageUrl ==
  EpicAnsweredRecords
    => LET items == upstream.data.items
       IN /\ res.status = 200
          /\ res.json # Undefined
          /\ Len(res.json[1]) = Len(items)
          /\ \A i \in 1..Len(items) :
               LET out == res.json[1][i]
               IN /\ out.date = items[i].date
                  /\ out.identifier = items[i].identifier
                  /\ items[i].image # Undefined
                       => out.imageUrl =
                            <<"https://epic.gsfc.nasa.gov/archive/natural/">>
                              \o DatePath(items[i].date[1])
                              \o <<"/png/", items[i].image[1], ".png">>
                  /\ items[i].date = Some(DateFull)
                       => SubSeq(out.imageUrl, 2, 11) =
                            <<"2", "0", "1", "9", "/", "0", "5", "/", "3", "0">>

\* Two records were returned, the second dated YYYY-MM-DD HH:MM:SS.
C10_Witness ==
  /\ EpicAnsweredRecords /\ req.date = Some("2020-01-01")
  /\ Len(upstream.data.items) = 2
  /\ upstream.data.items[1].date = Some(DateOnly)
  /\ upstream.data.items[2].date = Some(DateFull)
  /\ res.status = 200 /\ Len(res.json[1]) = 2

====
